---- MODULE Spec2Model ----
(***************************************************************************)
(* Huffman file compressor / decompressor (src/huffman.c, src/huffman.h).  *)
(*                                                                         *)
(* Files are sequences of bytes.  The Huffman tree is an arena: a sequence *)
(* of nodes whose left/right fields are indices into the arena, 0 being    *)
(* the NULL pointer.  32-bit unsigned values are carried as their int32    *)
(* bit pattern (the model checker's integers are 32 bits wide), so the     *)
(* conversion uint32_t -> int is the identity on patterns and unsigned     *)
(* comparison is U32Lt.  fopen and malloc are assumed to succeed.          *)
(***************************************************************************)
EXTENDS Integers, Sequences, FiniteSets, TLC

\* ---------------------------------------------------------------- bounds
NumSyms == 3       \* distinct byte values a mixed input may use
MaxLen == 4        \* longest block of a mixed input file, in bytes
MaxRep == 2        \* most repetitions of the block in a mixed input file
MaxRun == 17       \* longest input file that repeats one byte value
NumTableSyms == 5  \* byte values a freely chosen frequency table may use
MaxFreq == 3       \* largest count in a freely chosen frequency table
MaxCap == 4        \* largest capacity of a queue driven call by call
MaxNodes == 5      \* most nodes created for a queue driven call by call
MaxWeight == 2     \* largest small weight of a node of such a queue

\* ------------------------------------------------------ program constants
ASCII_SIZE == 256
MAGIC_NUMBER == 1213548102
HEADER_SIZE == 17
INT_MAX == 2147483647

NULL == 0
EOF == -1

\* F applied to v: names a value that the following steps use
Let(v, F(_)) == F(v)

\* the byte values used: the two extremes and letters from 'A' on
SymbolSet(n) == {0, 255} \cup {65 + k : k \in 0 .. n - 3}
Alphabet == SymbolSet(NumSyms)
TableAlphabet == SymbolSet(NumTableSyms)

\* ------------------------------------------------------- 32-bit integers
\* a < b for two uint32 values given as int32 patterns
U32Lt(a, b) == IF (a < 0) = (b < 0) THEN a < b ELSE b < 0

\* a + b modulo 2^32 on int32 patterns
Add32(a, b) ==
    IF a >= 0 /\ b >= 0
    THEN IF a <= INT_MAX - b THEN a + b
         ELSE ((a - INT_MAX) - 1) + ((b - INT_MAX) - 1)
    ELSE IF a < 0 /\ b < 0
    THEN IF a >= ((0 - INT_MAX) - 1) - b THEN a + b
         ELSE ((a + INT_MAX) + 1) + ((b + INT_MAX) + 1)
    ELSE a + b

\* the four bytes fwrite stores for a uint32 (little-endian host)
U32Bytes(v) ==
    LET u == IF v >= 0 THEN v ELSE (v + INT_MAX) + 1
        hi == (u \div 16777216) + (IF v >= 0 THEN 0 ELSE 128)
    IN  << u % 256, (u \div 256) % 256, (u \div 65536) % 256, hi >>

\* the uint32 fread assembles from four bytes
BytesU32(b) ==
    LET low == b[1] + 256 * b[2] + 65536 * b[3] + 16777216 * (b[4] % 128)
    IN  IF b[4] < 128 THEN low ELSE (low - INT_MAX) - 1

\* ------------------------------------------------------- memory management
createNode(arena, character, frequency) ==
    Append(arena, [character |-> character, frequency |-> frequency,
                   left |-> NULL, right |-> NULL])

\* ---------------------------------------------------------------- min-heap
\* faulty variant: room for one node less
createMinHeapOneShort(capacity) ==
    [size |-> 0, capacity |-> capacity - 1,
     nodes |-> [i \in 0 .. capacity - 2 |-> NULL]]

createMinHeap(capacity) ==
    [size |-> 0, capacity |-> capacity,
     nodes |-> [i \in 0 .. capacity - 1 |-> NULL]]

\* faulty variant: the right child is never compared
RECURSIVE minHeapifyLeftOnly(_, _, _)
minHeapifyLeftOnly(heap, arena, index) ==
    LET left == 2 * index + 1
        smallest == IF left < heap.size
                       /\ U32Lt(arena[heap.nodes[left]].frequency,
                                arena[heap.nodes[index]].frequency)
                    THEN left ELSE index
    IN  IF smallest # index
        THEN minHeapifyLeftOnly(
                 [heap EXCEPT !.nodes[smallest] = heap.nodes[index],
                              !.nodes[index] = heap.nodes[smallest]],
                 arena, smallest)
        ELSE heap

RECURSIVE minHeapify(_, _, _)
minHeapify(heap, arena, index) ==
    LET left == 2 * index + 1
        right == 2 * index + 2
        s1 == IF left < heap.size
                 /\ U32Lt(arena[heap.nodes[left]].frequency,
                          arena[heap.nodes[index]].frequency)
              THEN left ELSE index
        smallest == IF right < heap.size
                       /\ U32Lt(arena[heap.nodes[right]].frequency,
                                arena[heap.nodes[s1]].frequency)
                    THEN right ELSE s1
    IN  IF smallest # index
        THEN minHeapify([heap EXCEPT !.nodes[smallest] = heap.nodes[index],
                                     !.nodes[index] = heap.nodes[smallest]],
                        arena, smallest)
        ELSE heap

extractMin(heap, arena) ==
    IF heap.size <= 0
    THEN [heap |-> heap, node |-> NULL]
    ELSE LET root == heap.nodes[0]
             h1 == [heap EXCEPT !.nodes[0] = heap.nodes[heap.size - 1],
                                !.size = heap.size - 1]
         IN  [heap |-> IF h1.size > 0 THEN minHeapify(h1, arena, 0) ELSE h1,
              node |-> root]

\* faulty variant: a node also moves above a parent of equal weight
RECURSIVE SiftUpPastEqual(_, _, _, _)
SiftUpPastEqual(nodes, arena, i, node) ==
    IF i # 0 /\ ~U32Lt(arena[nodes[(i - 1) \div 2]].frequency,
                       arena[node].frequency)
    THEN SiftUpPastEqual([nodes EXCEPT ![i] = nodes[(i - 1) \div 2]], arena,
                         (i - 1) \div 2, node)
    ELSE [nodes EXCEPT ![i] = node]

\* the while-loop of insertMinHeap: the hole moves up from position i
RECURSIVE SiftUp(_, _, _, _)
SiftUp(nodes, arena, i, node) ==
    IF i # 0 /\ U32Lt(arena[node].frequency,
                      arena[nodes[(i - 1) \div 2]].frequency)
    THEN SiftUp([nodes EXCEPT ![i] = nodes[(i - 1) \div 2]], arena,
                (i - 1) \div 2, node)
    ELSE [nodes EXCEPT ![i] = node]

insertMinHeap(heap, arena, node) ==
    IF heap.size >= heap.capacity
    THEN heap
    ELSE [heap EXCEPT !.size = heap.size + 1,
                      !.nodes = SiftUp(heap.nodes, arena, heap.size, node)]

isHeapEmpty(heap) == heap.size = 0

\* --------------------------------------------------- frequency calculation
\* the while-loop over the bytes of the file; st is [k, frequencies], the
\* position of the next byte and the counts so far
RECURSIVE CountBytes(_, _)
CountBytes(data, st) ==
    IF st.k > Len(data) THEN st.frequencies
    ELSE CountBytes(data,
                    [k |-> st.k + 1,
                     frequencies |-> [st.frequencies EXCEPT
                                          ![data[st.k]] = Add32(@, 1)]])

\* ret is the file size, or -1 for an empty file
calculateFrequencies(data) ==
    [ret |-> IF Len(data) = 0 THEN -1 ELSE Len(data),
     frequencies |->
         CountBytes(data, [k |-> 1,
                           frequencies |-> [i \in 0 .. ASCII_SIZE - 1 |-> 0]])]

\* ------------------------------------------------ Huffman tree construction
\* the least index j >= i of the table with a nonzero count, ASCII_SIZE if
\* there is none: the iterations a for-loop over the table skips
NextPresent(frequencies, i) ==
    LET rest == {j \in i .. ASCII_SIZE - 1 : frequencies[j] # 0}
    IN  IF rest = {} THEN ASCII_SIZE
        ELSE CHOOSE j \in rest : \A k \in rest : j <= k

\* the for-loop that inserts one leaf per present symbol, ascending
RECURSIVE PopulateHeap(_, _, _, _)
PopulateHeap(frequencies, i, heap, arena) ==
    LET j == NextPresent(frequencies, i)
    IN  IF j >= ASCII_SIZE THEN [heap |-> heap, arena |-> arena]
        ELSE LET a1 == createNode(arena, j, frequencies[j])
             IN  PopulateHeap(frequencies, j + 1,
                              insertMinHeap(heap, a1, Len(a1)), a1)

\* the while-loop that merges the two minimum nodes
RECURSIVE MergeLoop(_, _)
MergeLoop(heap, arena) ==
    IF heap.size > 1
    THEN Let(extractMin(heap, arena), LAMBDA e1 :
         Let(extractMin(e1.heap, arena), LAMBDA e2 :
         Let(e1.node, LAMBDA left :
         Let(e2.node, LAMBDA right :
             IF left = NULL \/ right = NULL
             THEN [heap |-> e2.heap, arena |-> arena, failed |-> TRUE]
             ELSE Let(createNode(arena, 0, Add32(arena[left].frequency,
                                                 arena[right].frequency)),
                      LAMBDA a1 :
                  Let(Len(a1), LAMBDA merged :
                  Let([a1 EXCEPT ![merged].left = left,
                                 ![merged].right = right], LAMBDA a2 :
                      MergeLoop(insertMinHeap(e2.heap, a2, merged), a2))))))))
    ELSE [heap |-> heap, arena |-> arena, failed |-> FALSE]

\* faulty variant: the leaf is hung on the right of the root
singleCharTreeRight(frequencies) ==
    LET i == NextPresent(frequencies, 0)
        a1 == createNode(<< >>, 0, frequencies[i])
        a2 == createNode(a1, i, frequencies[i])
    IN  [arena |-> [a2 EXCEPT ![1].right = 2], root |-> 1]

\* the single character case: a root whose only child is the leaf
singleCharTree(frequencies) ==
    LET i == NextPresent(frequencies, 0)
        a1 == createNode(<< >>, 0, frequencies[i])
        a2 == createNode(a1, i, frequencies[i])
    IN  [arena |-> [a2 EXCEPT ![1].left = 2], root |-> 1]

\* the tree is [arena, root]; root = NULL is the error return
buildHuffmanTree(frequencies) ==
    Let(Cardinality({i \in 0 .. ASCII_SIZE - 1 : frequencies[i] # 0}),
        LAMBDA uniqueChars :
        IF uniqueChars = 0
        THEN [arena |-> << >>, root |-> NULL]
        ELSE IF uniqueChars = 1
        THEN singleCharTree(frequencies)
        ELSE Let(PopulateHeap(frequencies, 0, createMinHeap(uniqueChars),
                              << >>), LAMBDA p :
             Let(MergeLoop(p.heap, p.arena), LAMBDA m :
                 IF m.failed
                 THEN [arena |-> m.arena, root |-> NULL]
                 ELSE [arena |-> m.arena,
                       root |-> extractMin(m.heap, m.arena).node])))

\* ----------------------------------------------------------- code generation
EmptyCodes == [i \in 0 .. ASCII_SIZE - 1 |-> [code |-> << >>, length |-> 0]]

\* faulty variant: the right edge is labelled '0' like the left edge
RECURSIVE generateCodesSameBit(_, _, _, _, _)
generateCodesSameBit(arena, root, codes, currentCode, depth) ==
    IF root = NULL THEN codes
    ELSE IF arena[root].left = NULL /\ arena[root].right = NULL
    THEN [codes EXCEPT ![arena[root].character] =
                           [code |-> currentCode, length |-> depth]]
    ELSE LET c1 == IF arena[root].left # NULL
                   THEN generateCodesSameBit(arena, arena[root].left, codes,
                                             Append(currentCode, "0"),
                                             depth + 1)
                   ELSE codes
         IN  IF arena[root].right # NULL
             THEN generateCodesSameBit(arena, arena[root].right, c1,
                                       Append(currentCode, "0"), depth + 1)
             ELSE c1

\* currentCode holds the characters written at positions 0 .. depth-1
RECURSIVE generateCodes(_, _, _, _, _)
generateCodes(arena, root, codes, currentCode, depth) ==
    IF root = NULL THEN codes
    ELSE IF arena[root].left = NULL /\ arena[root].right = NULL
    THEN [codes EXCEPT ![arena[root].character] =
                           [code |-> currentCode, length |-> depth]]
    ELSE LET c1 == IF arena[root].left # NULL
                   THEN generateCodes(arena, arena[root].left, codes,
                                      Append(currentCode, "0"), depth + 1)
                   ELSE codes
         IN  IF arena[root].right # NULL
             THEN generateCodes(arena, arena[root].right, c1,
                                Append(currentCode, "1"), depth + 1)
             ELSE c1

buildCodeTable(tree) ==
    IF tree.root = NULL THEN EmptyCodes
    ELSE IF tree.arena[tree.root].left = NULL
            /\ tree.arena[tree.root].right = NULL
    THEN [EmptyCodes EXCEPT ![tree.arena[tree.root].character] =
                                [code |-> << "0" >>, length |-> 1]]
    ELSE generateCodes(tree.arena, tree.root, EmptyCodes, << >>, 0)

\* ------------------------------------------------------------ file access
\* an open FILE is [data, pos]: the bytes of the file and the offset
Fopen(data) == [data |-> data, pos |-> 0]

\* faulty variant: the bytes are inserted at the offset
FwriteInsert(f, bs) ==
    [data |-> SubSeq(f.data, 1, f.pos) \o bs
              \o SubSeq(f.data, f.pos + 1, Len(f.data)),
     pos |-> f.pos + Len(bs)]

\* fwrite/fputc: overwrite at the offset, extending the file at its end
Fwrite(f, bs) ==
    [data |-> SubSeq(f.data, 1, f.pos) \o bs
              \o SubSeq(f.data, f.pos + Len(bs) + 1, Len(f.data)),
     pos |-> f.pos + Len(bs)]

\* number of bytes left to read
Available(f) == Len(f.data) - f.pos

\* ----------------------------------------------------------- bit operations
writeBit(f, bitBuffer, bit) ==
    LET buffer == ((bitBuffer.buffer * 2) % 256) + (bit % 2)
        bitCount == bitBuffer.bitCount + 1
    IN  IF bitCount = 8
        THEN [f |-> Fwrite(f, << buffer >>),
              bitBuffer |-> [buffer |-> 0, bitCount |-> 0]]
        ELSE [f |-> f,
              bitBuffer |-> [buffer |-> buffer, bitCount |-> bitCount]]

\* faulty variant: the pending bits are written without left-alignment
flushBitsUnaligned(f, bitBuffer) ==
    IF bitBuffer.bitCount > 0
    THEN Fwrite(f, << bitBuffer.buffer >>)
    ELSE f

flushBits(f, bitBuffer) ==
    IF bitBuffer.bitCount > 0
    THEN Fwrite(f, << (bitBuffer.buffer * 2 ^ (8 - bitBuffer.bitCount)) % 256 >>)
    ELSE f

readBit(f, currentByte, bitPosition) ==
    IF bitPosition = 0
    THEN IF Available(f) = 0
         THEN [bit |-> EOF, f |-> f, currentByte |-> currentByte,
               bitPosition |-> bitPosition]
         ELSE LET ch == f.data[f.pos + 1]
              IN  [bit |-> (ch \div 2 ^ 7) % 2,
                   f |-> [f EXCEPT !.pos = f.pos + 1],
                   currentByte |-> ch, bitPosition |-> 7]
    ELSE [bit |-> (currentByte \div 2 ^ (bitPosition - 1)) % 2, f |-> f,
          currentByte |-> currentByte, bitPosition |-> bitPosition - 1]

\* --------------------------------------------------------------- compression
writeFileHeader(f, header) ==
    Fwrite(f, U32Bytes(header.magic) \o U32Bytes(header.original_size)
              \o U32Bytes(header.compressed_size)
              \o U32Bytes(header.frequency_count)
              \o << header.padding_bits >>)

RECURSIVE WriteFreqLoop(_, _, _)
WriteFreqLoop(f, frequencies, i) ==
    LET j == NextPresent(frequencies, i)
    IN  IF j >= ASCII_SIZE THEN f
        ELSE WriteFreqLoop(Fwrite(f, << j >> \o U32Bytes(frequencies[j])),
                           frequencies, j + 1)

\* faulty variant: the loop starts at symbol 1
writeFrequenciesFromOne(f, frequencies) == WriteFreqLoop(f, frequencies, 1)

writeFrequencies(f, frequencies) == WriteFreqLoop(f, frequencies, 0)

\* the inner for-loop: the bits of one code; w is [i, f, bitBuffer]
RECURSIVE WriteCode(_, _)
WriteCode(entry, w) ==
    IF w.i >= entry.length THEN w
    ELSE WriteCode(entry,
             Let(writeBit(w.f, w.bitBuffer,
                          IF entry.code[w.i + 1] = "1" THEN 1 ELSE 0),
                 LAMBDA r : [i |-> w.i + 1, f |-> r.f,
                             bitBuffer |-> r.bitBuffer]))

\* one iteration of the while-loop over the input; st is [k, f, bitBuffer]
EncodeStep(input, codes, st) ==
    IF codes[input[st.k]].length = 0
    THEN [st EXCEPT !.k = st.k + 1]
    ELSE Let(WriteCode(codes[input[st.k]],
                       [i |-> 0, f |-> st.f, bitBuffer |-> st.bitBuffer]),
             LAMBDA w : [k |-> st.k + 1, f |-> w.f,
                         bitBuffer |-> w.bitBuffer])

\* the while-loop over the bytes of the input
RECURSIVE EncodeLoop(_, _, _)
EncodeLoop(input, codes, st) ==
    IF st.k > Len(input) THEN st
    ELSE EncodeLoop(input, codes, EncodeStep(input, codes, st))

encodeAndWrite(input, outputFile, codes) ==
    Let(EncodeLoop(input, codes,
                   [k |-> 1, f |-> outputFile,
                    bitBuffer |-> [buffer |-> 0, bitCount |-> 0]]),
        LAMBDA w : flushBits(w.f, w.bitBuffer))

NoHeader == [magic |-> 0, original_size |-> 0, compressed_size |-> 0,
             frequency_count |-> 0, padding_bits |-> 0]
NoTree == [arena |-> << >>, root |-> NULL]
NoFrequencies == [i \in 0 .. ASCII_SIZE - 1 |-> 0]

\* the outcome of no compression run
NoComp == [ret |-> 0, done |-> FALSE, outOpened |-> FALSE, out |-> << >>,
           frequencies |-> NoFrequencies, tree |-> NoTree,
           codes |-> EmptyCodes, header |-> NoHeader,
           dataStart |-> 0, dataEnd |-> 0]

\* faulty variant: the output file is created before the input is examined
compressFileEarlyReturnOpened(frequencies) ==
    [NoComp EXCEPT !.ret = -1, !.done = TRUE, !.frequencies = frequencies,
                   !.outOpened = TRUE]

\* the returns of compressFile that precede the opening of the files
compressFileEarlyReturn(frequencies) ==
    [NoComp EXCEPT !.ret = -1, !.done = TRUE, !.frequencies = frequencies]

compressFile(input) ==
    Let(calculateFrequencies(input), LAMBDA c :
    Let(c.ret, LAMBDA originalSize :
    Let(c.frequencies, LAMBDA frequencies :
        IF originalSize < 0
        THEN compressFileEarlyReturn(frequencies)
        ELSE
    Let(buildHuffmanTree(frequencies), LAMBDA tree :
        IF tree.root = NULL
        THEN compressFileEarlyReturn(frequencies)
        ELSE
    Let(buildCodeTable(tree), LAMBDA codes :
    Let(Cardinality({i \in 0 .. ASCII_SIZE - 1 : frequencies[i] # 0}),
        LAMBDA frequencyCount :
    Let([magic |-> MAGIC_NUMBER, original_size |-> originalSize,
         compressed_size |-> 0, frequency_count |-> frequencyCount,
         padding_bits |-> 0], LAMBDA header :
    Let(writeFileHeader(Fopen(<< >>), header), LAMBDA f1 :
    Let(writeFrequencies(f1, frequencies), LAMBDA f2 :
    Let(f2.pos, LAMBDA dataStart :
    Let(encodeAndWrite(input, f2, codes), LAMBDA f3 :
    Let(f3.pos, LAMBDA dataEnd :
    Let([header EXCEPT !.compressed_size = dataEnd - dataStart],
        LAMBDA header2 :
    Let(writeFileHeader([f3 EXCEPT !.pos = 0], header2), LAMBDA f4 :
        [ret |-> 0, done |-> TRUE, outOpened |-> TRUE, out |-> f4.data,
         frequencies |-> frequencies, tree |-> tree, codes |-> codes,
         header |-> header2, dataStart |-> dataStart,
         dataEnd |-> dataEnd]))))))))))))))

\* ------------------------------------------------------------- decompression
\* faulty variant: the magic field is not compared
readFileHeaderAnyMagic(f) ==
    IF Available(f) < HEADER_SIZE
    THEN [ret |-> -1, header |-> NoHeader, f |-> f]
    ELSE LET b == SubSeq(f.data, f.pos + 1, f.pos + HEADER_SIZE)
         IN  [ret |-> 0,
              header |-> [magic |-> BytesU32(SubSeq(b, 1, 4)),
                          original_size |-> BytesU32(SubSeq(b, 5, 8)),
                          compressed_size |-> BytesU32(SubSeq(b, 9, 12)),
                          frequency_count |-> BytesU32(SubSeq(b, 13, 16)),
                          padding_bits |-> b[17]],
              f |-> [f EXCEPT !.pos = f.pos + HEADER_SIZE]]

readFileHeader(f) ==
    IF Available(f) < HEADER_SIZE
    THEN [ret |-> -1, header |-> NoHeader, f |-> f]
    ELSE LET b == SubSeq(f.data, f.pos + 1, f.pos + HEADER_SIZE)
             header == [magic |-> BytesU32(SubSeq(b, 1, 4)),
                        original_size |-> BytesU32(SubSeq(b, 5, 8)),
                        compressed_size |-> BytesU32(SubSeq(b, 9, 12)),
                        frequency_count |-> BytesU32(SubSeq(b, 13, 16)),
                        padding_bits |-> b[17]]
         IN  [ret |-> IF header.magic # MAGIC_NUMBER THEN -1 ELSE 0,
              header |-> header,
              f |-> [f EXCEPT !.pos = f.pos + HEADER_SIZE]]

\* count is an int: a uint32 of 2^31 or more arrives negative
RECURSIVE ReadFreqLoop(_, _, _, _)
ReadFreqLoop(f, frequencies, i, count) ==
    IF ~(i < count) THEN [ret |-> 0, frequencies |-> frequencies, f |-> f]
    ELSE IF Available(f) = 0
    THEN [ret |-> -1, frequencies |-> frequencies, f |-> f]
    ELSE IF Available(f) < 5
    THEN [ret |-> -1, frequencies |-> frequencies,
          f |-> [f EXCEPT !.pos = Len(f.data)]]
    ELSE LET character == f.data[f.pos + 1]
             v == BytesU32(SubSeq(f.data, f.pos + 2, f.pos + 5))
         IN  ReadFreqLoop([f EXCEPT !.pos = f.pos + 5],
                          [frequencies EXCEPT ![character] = v], i + 1, count)

\* faulty variant: the loop starts at 1 and reads one entry too few
readFrequenciesFromOne(f, count) == ReadFreqLoop(f, NoFrequencies, 1, count)

readFrequencies(f, count) == ReadFreqLoop(f, NoFrequencies, 0, count)

\* What the dereference of a NULL currentNode (line 631) can do: the process
\* is killed, or the read yields garbage that looks like an internal node
\* (the NULL test of line 637 then reports the error) or like a leaf (a
\* garbage character is written and decoding goes on).
UBOutcomes == [kind : {"crash", "nonleaf"}, character : {0}]
                  \cup [kind : {"leaf"}, character : {0, 255}]

\* One iteration of the while-loop past its test.  s is the state of the
\* decoder: f, currentNode, currentByte, bitPosition, decodedBytes, the
\* bytes written (out), status and nullStep.
\* status: "run", "size" (originalSize bytes decoded), "eof" (bit stream
\* ended), "desync" (error message of line 638), "crash"; nullStep: some
\* descent step landed on NULL.
DecodeStep(tree, ub, s) ==
    Let(readBit(s.f, s.currentByte, s.bitPosition), LAMBDA r :
        IF r.bit = EOF
        THEN [s EXCEPT !.status = "eof", !.f = r.f]
        ELSE
    Let(IF r.bit = 0 THEN tree.arena[s.currentNode].left
        ELSE tree.arena[s.currentNode].right, LAMBDA next :
        IF next = NULL /\ ub.kind = "crash"
        THEN [s EXCEPT !.status = "crash", !.nullStep = TRUE, !.f = r.f]
        ELSE
    Let(IF next = NULL THEN ub.kind = "leaf"
        ELSE tree.arena[next].left = NULL /\ tree.arena[next].right = NULL,
        LAMBDA isLeaf :
    Let(IF next = NULL THEN ub.character ELSE tree.arena[next].character,
        LAMBDA character :
        IF isLeaf
        THEN [s EXCEPT !.f = r.f, !.currentNode = tree.root,
                       !.currentByte = r.currentByte,
                       !.bitPosition = r.bitPosition,
                       !.decodedBytes = s.decodedBytes + 1,
                       !.out = Append(s.out, character),
                       !.nullStep = s.nullStep \/ next = NULL]
        ELSE IF next = NULL
        THEN [s EXCEPT !.status = "desync", !.nullStep = TRUE, !.f = r.f]
        ELSE [s EXCEPT !.f = r.f, !.currentNode = next,
                       !.currentByte = r.currentByte,
                       !.bitPosition = r.bitPosition]))))

\* faulty variant: the loop runs until the bit stream ends
RECURSIVE DecodeLoopToEof(_, _, _, _)
DecodeLoopToEof(tree, originalSize, ub, s) ==
    IF s.status # "run" THEN s
    ELSE DecodeLoopToEof(tree, originalSize, ub, DecodeStep(tree, ub, s))

\* the while-loop: its test, then one iteration
RECURSIVE DecodeLoop(_, _, _, _)
DecodeLoop(tree, originalSize, ub, s) ==
    IF s.status # "run" THEN s
    ELSE IF ~U32Lt(s.decodedBytes, originalSize)
    THEN [s EXCEPT !.status = "size"]
    ELSE DecodeLoop(tree, originalSize, ub, DecodeStep(tree, ub, s))

decodeAndWrite(f, tree, originalSize, paddingBits, ub) ==
    IF tree.root = NULL
    THEN [f |-> f, currentNode |-> NULL, currentByte |-> 0, bitPosition |-> 0,
          decodedBytes |-> 0, out |-> << >>, status |-> "size",
          nullStep |-> FALSE]
    ELSE DecodeLoop(tree, originalSize, ub,
                    [f |-> f, currentNode |-> tree.root, currentByte |-> 0,
                     bitPosition |-> 0, decodedBytes |-> 0, out |-> << >>,
                     status |-> "run", nullStep |-> FALSE])

\* the outcome of no decompression run
NoDec == [ret |-> 0, returned |-> FALSE, headerRead |-> FALSE,
          freqRead |-> FALSE, treeBuilt |-> FALSE, outOpened |-> FALSE,
          out |-> << >>, header |-> NoHeader, frequencies |-> NoFrequencies,
          tree |-> NoTree, decodedBytes |-> 0, status |-> "none",
          nullStep |-> FALSE]

\* headerRead, freqRead, treeBuilt: readFileHeader, readFrequencies,
\* buildHuffmanTree were called; returned is FALSE when the process died
decompressFile(data, ub) ==
    Let(readFileHeader(Fopen(data)), LAMBDA h :
    Let(h.header, LAMBDA header :
        IF h.ret # 0
        THEN [NoDec EXCEPT !.ret = -1, !.returned = TRUE,
                           !.headerRead = TRUE, !.header = header]
        ELSE
    Let(readFrequencies(h.f, header.frequency_count), LAMBDA r :
        IF r.ret # 0
        THEN [NoDec EXCEPT !.ret = -1, !.returned = TRUE,
                           !.headerRead = TRUE, !.header = header,
                           !.freqRead = TRUE, !.frequencies = r.frequencies]
        ELSE
    Let(buildHuffmanTree(r.frequencies), LAMBDA tree :
        IF tree.root = NULL
        THEN [NoDec EXCEPT !.ret = -1, !.returned = TRUE,
                           !.headerRead = TRUE, !.header = header,
                           !.freqRead = TRUE, !.frequencies = r.frequencies,
                           !.treeBuilt = TRUE]
        ELSE
    Let(decodeAndWrite(r.f, tree, header.original_size, header.padding_bits,
                       ub), LAMBDA d :
        [ret |-> 0, returned |-> d.status # "crash",
         headerRead |-> TRUE, freqRead |-> TRUE, treeBuilt |-> TRUE,
         outOpened |-> TRUE, out |-> d.out, header |-> header,
         frequencies |-> r.frequencies, tree |-> tree,
         decodedBytes |-> d.decodedBytes, status |-> d.status,
         nullStep |-> d.nullStep])))))

\* ============================================================ state machine
VARIABLES
    pc,         \* "start", "compressed", "decompressed"; "table", "built",
                \*   "written", "read" in the frequency-table specification;
                \*   "heap" in the queue specification; "build", "populate",
                \*   "merge", "done" in the tree-building specification
    input,      \* the bytes of the file to compress
    comp,       \* what compressFile did
    archive,    \* the bytes of the compressed file on disk
    tampered,   \* the archive was changed after compressFile wrote it
    dec,        \* what decompressFile did
    heap,       \* the MinHeap under construction or under test
    arena,      \* the HuffmanNodes created so far
    last        \* the last queue operation and the state it started from

vars == << pc, input, comp, archive, tampered, dec, heap, arena, last >>

\* no queue operation yet; fresh: no extractMin since the queue was last
\* empty; wasFresh: the same of the state the operation started from
NoOp == [op |-> "none", before |-> createMinHeap(0), node |-> NULL,
         fresh |-> TRUE, wasFresh |-> TRUE, i |-> 0, merges |-> 0]

\* the queue variables of the specifications that do not step the queue
QueueIdle == heap = createMinHeap(0) /\ arena = << >> /\ last = NoOp

RECURSIVE SeqsUpTo(_, _)
SeqsUpTo(S, n) ==
    IF n = 0 THEN {<< >>}
    ELSE LET shorter == SeqsUpTo(S, n - 1)
         IN  shorter \cup {Append(q, x) : q \in shorter, x \in S}

Run(s, n) == [k \in 1 .. n |-> s]

RECURSIVE Repeat(_, _)
Repeat(q, m) == IF m = 0 THEN << >> ELSE q \o Repeat(q, m - 1)

\* every block of up to MaxLen bytes, repeated up to MaxRep times, and every
\* run of one byte value up to MaxRun bytes
Inputs == {Repeat(q, m) : q \in SeqsUpTo(Alphabet, MaxLen), m \in 1 .. MaxRep}
              \cup {Run(s, n) : s \in Alphabet, n \in 1 .. MaxRun}

Init ==
    /\ pc = "start"
    /\ input \in Inputs
    /\ comp = NoComp
    /\ archive = << >>
    /\ tampered = FALSE
    /\ dec = NoDec
    /\ QueueIdle

CompressFile ==
    /\ pc = "start"
    /\ comp' = compressFile(input)
    /\ archive' = comp'.out
    /\ pc' = "compressed"
    /\ UNCHANGED << input, tampered, dec, heap, arena, last >>

\* the environment overwrites one byte of the archive
TamperBytes == {0, 65, 128}

CorruptByte ==
    /\ pc = "compressed"
    /\ comp.ret = 0
    /\ ~tampered
    /\ \E k \in 1 .. Len(archive), v \in TamperBytes :
          /\ archive[k] # v
          /\ archive' = [archive EXCEPT ![k] = v]
    /\ tampered' = TRUE
    /\ UNCHANGED << pc, input, comp, dec, heap, arena, last >>

\* the environment cuts the archive short
TruncateFile ==
    /\ pc = "compressed"
    /\ comp.ret = 0
    /\ ~tampered
    /\ \E k \in 0 .. Len(archive) - 1 : archive' = SubSeq(archive, 1, k)
    /\ tampered' = TRUE
    /\ UNCHANGED << pc, input, comp, dec, heap, arena, last >>

DecompressFile ==
    /\ pc = "compressed"
    /\ comp.ret = 0
    /\ \E ub \in UBOutcomes : dec' = decompressFile(archive, ub)
    /\ pc' = "decompressed"
    /\ UNCHANGED << input, comp, archive, tampered, heap, arena, last >>

Next == CompressFile \/ CorruptByte \/ TruncateFile \/ DecompressFile

Spec == Init /\ [][Next]_vars

\* ------------------------------ frequency tables chosen freely (SpecTable)
\* the count 0x80000000: two of them add up to 2^32
HighCount == (0 - INT_MAX) - 1

\* the counts of a table: small ones, and one with the top bit set
Counts == (0 .. MaxFreq) \cup {HighCount}

FreqTables ==
    {[i \in 0 .. ASCII_SIZE - 1 |-> IF i \in TableAlphabet THEN t[i] ELSE 0] :
        t \in [TableAlphabet -> Counts]}

PresentSyms(frequencies) == {i \in 0 .. ASCII_SIZE - 1 : frequencies[i] # 0}

TableInit ==
    /\ pc = "table"
    /\ input = << >>
    /\ comp \in {[NoComp EXCEPT !.frequencies = t] : t \in FreqTables}
    /\ archive = << >>
    /\ tampered = FALSE
    /\ dec = NoDec
    /\ QueueIdle

TableBuild ==
    /\ pc = "table"
    /\ \E tree \in {buildHuffmanTree(comp.frequencies)} :
          comp' = [comp EXCEPT !.tree = tree, !.codes = buildCodeTable(tree)]
    /\ pc' = "built"
    /\ UNCHANGED << input, archive, tampered, dec, heap, arena, last >>

TableWrite ==
    /\ pc = "built"
    /\ archive' = writeFrequencies(Fopen(<< >>), comp.frequencies).data
    /\ pc' = "written"
    /\ UNCHANGED << input, comp, tampered, dec, heap, arena, last >>

TableRead ==
    /\ pc = "written"
    /\ LET r == readFrequencies(Fopen(archive),
                                Cardinality(PresentSyms(comp.frequencies)))
       IN  dec' = [NoDec EXCEPT !.ret = r.ret, !.returned = TRUE,
                                !.freqRead = TRUE,
                                !.frequencies = r.frequencies,
                                !.tree = buildHuffmanTree(r.frequencies)]
    /\ pc' = "read"
    /\ UNCHANGED << input, comp, archive, tampered, heap, arena, last >>

TableNext == TableBuild \/ TableWrite \/ TableRead

SpecTable == TableInit /\ [][TableNext]_vars

\* -------------------------------- the queue driven call by call (SpecHeap)
\* the weights of the nodes: small ones, and one with the top bit set
Weights == (1 .. MaxWeight) \cup {-1}

\* the nodes a MinHeap holds
Queued(h) == {h.nodes[k] : k \in 0 .. h.size - 1}

HeapInit ==
    /\ pc = "heap"
    /\ input = << >>
    /\ comp = NoComp
    /\ archive = << >>
    /\ tampered = FALSE
    /\ dec = NoDec
    /\ heap \in {createMinHeap(c) : c \in 1 .. MaxCap}
    /\ arena = << >>
    /\ last = NoOp

\* a caller creates a node and inserts it
InsertMinHeap ==
    /\ pc = "heap"
    /\ Len(arena) < MaxNodes
    /\ \E w \in Weights :
          /\ arena' = createNode(arena, 0, w)
          /\ heap' = insertMinHeap(heap, arena', Len(arena'))
    /\ last' = [NoOp EXCEPT !.op = "insert", !.before = heap,
                            !.node = Len(arena'),
                            !.fresh = isHeapEmpty(heap) \/ last.fresh,
                            !.wasFresh = isHeapEmpty(heap) \/ last.fresh]
    /\ UNCHANGED << pc, input, comp, archive, tampered, dec >>

ExtractMin ==
    /\ pc = "heap"
    /\ LET e == extractMin(heap, arena)
       IN  /\ heap' = e.heap
           /\ last' = [NoOp EXCEPT !.op = "extract", !.before = heap,
                                   !.node = e.node, !.fresh = FALSE,
                                   !.wasFresh = last.fresh]
    /\ UNCHANGED << pc, input, comp, archive, tampered, dec, arena >>

HeapNext == InsertMinHeap \/ ExtractMin

SpecHeap == HeapInit /\ [][HeapNext]_vars

\* ------------------------- buildHuffmanTree, one loop iteration a step (SpecBuild)
BuildInit ==
    /\ pc = "build"
    /\ input = << >>
    /\ comp \in {[NoComp EXCEPT !.frequencies = t] : t \in FreqTables}
    /\ archive = << >>
    /\ tampered = FALSE
    /\ dec = NoDec
    /\ QueueIdle

\* the count of the symbols, the two early returns and createMinHeap
BuildStart ==
    /\ pc = "build"
    /\ LET uniqueChars == Cardinality(PresentSyms(comp.frequencies))
       IN  IF uniqueChars = 0
           THEN /\ comp' = [comp EXCEPT !.tree = NoTree]
                /\ pc' = "done"
                /\ UNCHANGED << heap, arena >>
           ELSE IF uniqueChars = 1
           THEN /\ comp' = [comp EXCEPT
                               !.tree = singleCharTree(comp.frequencies)]
                /\ pc' = "done"
                /\ UNCHANGED << heap, arena >>
           ELSE /\ heap' = createMinHeap(uniqueChars)
                /\ arena' = << >>
                /\ pc' = "populate"
                /\ UNCHANGED comp
    /\ UNCHANGED << input, archive, tampered, dec, last >>

\* one iteration of the for-loop that finds a present symbol
BuildInsertLeaf ==
    /\ pc = "populate"
    /\ LET j == NextPresent(comp.frequencies, last.i)
       IN  /\ j < ASCII_SIZE
           /\ arena' = createNode(arena, j, comp.frequencies[j])
           /\ heap' = insertMinHeap(heap, arena', Len(arena'))
           /\ last' = [last EXCEPT !.op = "insert", !.before = heap,
                                   !.node = Len(arena'), !.i = j + 1]
           /\ pc' = IF NextPresent(comp.frequencies, j + 1) < ASCII_SIZE
                    THEN "populate" ELSE "merge"
    /\ UNCHANGED << input, comp, archive, tampered, dec >>

\* one iteration of the while-loop
BuildMerge ==
    /\ pc = "merge"
    /\ heap.size > 1
    /\ LET e1 == extractMin(heap, arena)
           e2 == extractMin(e1.heap, arena)
           left == e1.node
           right == e2.node
       IN  IF left = NULL \/ right = NULL
           THEN /\ comp' = [comp EXCEPT !.tree = [arena |-> arena,
                                                  root |-> NULL]]
                /\ heap' = e2.heap
                /\ pc' = "done"
                /\ UNCHANGED << arena, last >>
           ELSE LET a1 == createNode(arena, 0, Add32(arena[left].frequency,
                                                     arena[right].frequency))
                    merged == Len(a1)
                IN  /\ arena' = [a1 EXCEPT ![merged].left = left,
                                           ![merged].right = right]
                    /\ heap' = insertMinHeap(e2.heap, arena', merged)
                    /\ last' = [last EXCEPT !.op = "insert",
                                            !.before = e2.heap,
                                            !.node = merged,
                                            !.merges = last.merges + 1]
                    /\ UNCHANGED << pc, comp >>
    /\ UNCHANGED << input, archive, tampered, dec >>

\* the exit of the while-loop and the extraction of the root
BuildFinish ==
    /\ pc = "merge"
    /\ ~(heap.size > 1)
    /\ LET e == extractMin(heap, arena)
       IN  /\ heap' = e.heap
           /\ comp' = [comp EXCEPT !.tree = [arena |-> arena,
                                             root |-> e.node]]
           /\ last' = [last EXCEPT !.op = "extract", !.before = heap,
                                   !.node = e.node]
    /\ pc' = "done"
    /\ UNCHANGED << input, archive, tampered, dec, arena >>

BuildNext == BuildStart \/ BuildInsertLeaf \/ BuildMerge \/ BuildFinish

SpecBuild == BuildInit /\ [][BuildNext]_vars

\* ==================================================================== claims
Symbols(data) == {data[k] : k \in 1 .. Len(data)}

\* the header and the payload compressFile left in its output file
WrittenHeader == readFileHeader(Fopen(comp.out)).header
WrittenPayload == SubSeq(comp.out, comp.dataStart + 1, Len(comp.out))

CeilDiv8(n) == (n + 7) \div 8

IsPrefix(p, q) == Len(p) <= Len(q) /\ SubSeq(q, 1, Len(p)) = p

\* the entries of a serialized frequency table
TableEntries(data) ==
    [k \in 1 .. Len(data) \div 5 |->
        [symbol |-> data[5 * (k - 1) + 1],
         count |-> BytesU32(SubSeq(data, 5 * (k - 1) + 2, 5 * k))]]

\* C1: Round trip. Compressing a non-empty input succeeds, and decompressing
\* the archive compressFile wrote succeeds and yields the input, byte for
\* byte and of the same length.
C1_RoundTrip ==
    /\ (pc # "start" /\ input # << >>) => (comp.done /\ comp.ret = 0)
    /\ (pc = "decompressed" /\ ~tampered) =>
          /\ dec.returned /\ dec.ret = 0
          /\ dec.out = input
          /\ Len(dec.out) = Len(input)

C1_Witness ==
    /\ pc = "decompressed" /\ ~tampered
    /\ Cardinality(Symbols(input)) = NumSyms
    /\ Len(WrittenPayload) >= 2
    /\ dec.out = input

\* C2: Empty input rejected. compressFile on a zero-length input returns the
\* error outcome, and no output file is opened or written.
C2_EmptyRejected ==
    (pc # "start" /\ input = << >>) =>
        /\ comp.done /\ comp.ret = -1
        /\ ~comp.outOpened
        /\ comp.out = << >>
        /\ archive = << >>

C2_Witness == pc = "compressed" /\ input = << >> /\ comp.ret = -1

\* C3: Single-symbol input. Compressing N >= 1 repetitions of a byte s writes
\* a header with symbol count 1 and original size N, gives s the code "0" of
\* length 1 and every other symbol length 0, and writes ceil(N/8) payload
\* bytes.
C3_SingleSymbol ==
    (pc # "start" /\ Cardinality(Symbols(input)) = 1) =>
        LET s == input[1]
            N == Len(input)
        IN  /\ comp.ret = 0
            /\ WrittenHeader.frequency_count = 1
            /\ WrittenHeader.original_size = N
            /\ comp.codes[s] = [code |-> << "0" >>, length |-> 1]
            /\ \A i \in 0 .. ASCII_SIZE - 1 :
                   i # s => comp.codes[i].length = 0
            /\ Len(WrittenPayload) = CeilDiv8(N)

C3_Witness ==
    /\ pc = "compressed"
    /\ Cardinality(Symbols(input)) = 1
    /\ Len(input) = 9
    /\ Len(WrittenPayload) = 2

\* C4: Determinism. For a frequency table with a nonzero count, the tree
\* built from the table and the tree built from the table read back from its
\* serialized form are the same, and so are the codes of every symbol.
C4_Deterministic ==
    (pc = "read" /\ PresentSyms(comp.frequencies) # {}) =>
        /\ dec.tree = comp.tree
        /\ buildCodeTable(dec.tree) = comp.codes

C4_Witness ==
    /\ pc = "read"
    /\ Cardinality(PresentSyms(comp.frequencies)) = NumTableSyms
    /\ dec.tree.root # NULL
    /\ dec.tree = comp.tree

\* C5: Prefix-free. In the code table of a built tree no present symbol's
\* code is a prefix of, or equal to, the code of another present symbol.
C5_PrefixFree ==
    (pc \in {"built", "written", "read"}) =>
        \A a \in PresentSyms(comp.frequencies) :
            /\ comp.codes[a].length = Len(comp.codes[a].code)
            /\ \A b \in PresentSyms(comp.frequencies) :
                   a # b => ~IsPrefix(comp.codes[a].code, comp.codes[b].code)

C5_Witness ==
    /\ pc = "built"
    /\ Cardinality(PresentSyms(comp.frequencies)) = NumTableSyms
    /\ \E a, b \in PresentSyms(comp.frequencies) :
           comp.codes[a].length + 2 <= comp.codes[b].length

\* C6: Frequency table bijection. writeFrequencies followed by
\* readFrequencies with count the number of nonzero entries succeeds and
\* returns the original table; the serialized entries are exactly the
\* nonzero-count symbols, in strictly ascending symbol order.
C6_FreqBijection ==
    (pc = "read") =>
        LET e == TableEntries(archive)
        IN  /\ dec.ret = 0
            /\ dec.frequencies = comp.frequencies
            /\ Len(archive) = 5 * Cardinality(PresentSyms(comp.frequencies))
            /\ {e[k].symbol : k \in 1 .. Len(e)} = PresentSyms(comp.frequencies)
            /\ \A k \in 1 .. Len(e) :
                   /\ e[k].count # 0
                   /\ e[k].count = comp.frequencies[e[k].symbol]
                   /\ k > 1 => e[k - 1].symbol < e[k].symbol

C6_Witness ==
    /\ pc = "read"
    /\ Cardinality(PresentSyms(comp.frequencies)) = NumTableSyms - 1
    /\ comp.frequencies[0] = MaxFreq
    /\ dec.frequencies = comp.frequencies

\* C7: Corrupted magic. decompressFile on an archive whose magic field is not
\* the format constant returns the error outcome; the output file is never
\* opened, no frequency table is read and no tree is built.
MagicAltered ==
    Len(archive) >= HEADER_SIZE /\ BytesU32(SubSeq(archive, 1, 4)) # MAGIC_NUMBER

C7_CorruptedMagic ==
    (pc = "decompressed" /\ MagicAltered) =>
        /\ dec.returned /\ dec.ret = -1
        /\ ~dec.outOpened /\ dec.out = << >>
        /\ ~dec.freqRead
        /\ ~dec.treeBuilt

C7_Witness ==
    pc = "decompressed" /\ MagicAltered /\ dec.headerRead /\ dec.ret = -1

\* C8: Truncated frequency section. decompressFile on an archive with a valid
\* magic that holds fewer frequency entries than its header declares returns
\* the error outcome, without calling buildHuffmanTree or opening the output.
HeaderAccepted ==
    Len(archive) >= HEADER_SIZE /\ BytesU32(SubSeq(archive, 1, 4)) = MAGIC_NUMBER

DeclaredCount == BytesU32(SubSeq(archive, 13, 16))

\* complete five-byte entries that follow the header
EntriesHeld == (Len(archive) - HEADER_SIZE) \div 5

C8_TruncatedTable ==
    (pc = "decompressed" /\ HeaderAccepted
        /\ U32Lt(EntriesHeld, DeclaredCount)) =>
        /\ dec.returned /\ dec.ret = -1
        /\ ~dec.treeBuilt
        /\ ~dec.outOpened

\* C9: Stream desynchronization. When a descent step of the decoder lands on
\* a nonexistent child, the decoder stops with the desynchronization error
\* and emits no symbol for that step.
C9_DesyncReported ==
    (pc = "decompressed" /\ dec.nullStep) =>
        /\ dec.status = "desync"
        /\ dec.returned

\* C10: Inconsistent frequency data rejected. decompressFile returns the
\* error outcome and decodes nothing when the number of symbols with a
\* nonzero count in the table it read differs from the header's symbol count
\* (stated for the runs in which the decoder stays on the tree).
C10_InconsistentRejected ==
    (pc = "decompressed" /\ HeaderAccepted /\ dec.treeBuilt /\ dec.returned
        /\ ~dec.nullStep
        /\ Cardinality(PresentSyms(dec.frequencies)) # DeclaredCount) =>
        /\ dec.ret = -1
        /\ ~dec.outOpened
        /\ dec.decodedBytes = 0

\* the weight of a node
Weight(n) == arena[n].frequency

\* C11 (as stated): Stable tie-breaking. extractMin returns a node of minimum
\* weight and, among the queued nodes of that weight, the one inserted
\* earliest (nodes are numbered in the order of their insertion).
C11_StableTies ==
    (pc = "heap" /\ last.op = "extract" /\ last.node # NULL) =>
        \A n \in Queued(last.before) :
            /\ ~U32Lt(Weight(n), Weight(last.node))
            /\ Weight(n) = Weight(last.node) => last.node <= n

\* C11 (amended): the queue orders entries solely by weight: extractMin
\* returns the node at the root of the array, whose weight is minimal; among
\* the nodes of minimum weight it is the one inserted earliest when no
\* extractMin was called since the queue was last empty.
C11_TiesByPosition ==
    (pc = "heap" /\ last.op = "extract" /\ last.node # NULL) =>
        /\ last.node = last.before.nodes[0]
        /\ \A n \in Queued(last.before) :
               ~U32Lt(Weight(n), Weight(last.node))
        /\ last.wasFresh =>
               \A n \in Queued(last.before) :
                   Weight(n) = Weight(last.node) => last.node <= n

C11_Witness ==
    /\ pc = "heap" /\ last.op = "extract" /\ last.wasFresh
    /\ last.before.size >= 3
    /\ last.node # NULL /\ last.node > 1
    /\ Cardinality({n \in Queued(last.before) :
                       Weight(n) = Weight(last.node)}) >= 2

\* C12: extractMin returns a minimum. The array always satisfies the min-heap
\* property; extractMin on a non-empty queue removes exactly one node and
\* returns it, and its weight is at most that of every remaining node;
\* extractMin on an empty queue returns NULL and leaves the queue unchanged.
C12_ExtractMinimum ==
    (pc = "heap") =>
        /\ \A k \in 1 .. heap.size - 1 :
               ~U32Lt(Weight(heap.nodes[k]), Weight(heap.nodes[(k - 1) \div 2]))
        /\ (last.op = "extract" /\ last.before.size > 0) =>
               /\ last.node # NULL
               /\ last.node \in Queued(last.before)
               /\ heap.size = last.before.size - 1
               /\ Queued(heap) = Queued(last.before) \ {last.node}
               /\ \A n \in Queued(heap) :
                      ~U32Lt(Weight(n), Weight(last.node))
        /\ (last.op = "extract" /\ last.before.size = 0) =>
               /\ last.node = NULL
               /\ heap = last.before

C12_Witness ==
    /\ pc = "heap" /\ last.op = "extract"
    /\ last.before.size = MaxCap
    /\ Cardinality({Weight(n) : n \in Queued(last.before)}) >= 3
    /\ last.before.nodes[0] # 1

\* the nodes of a tree that point to n
Parents(tree, n) ==
    {p \in 1 .. Len(tree.arena) : tree.arena[p].left = n}
        \cup {p \in 1 .. Len(tree.arena) : tree.arena[p].right = n}

IsLeaf(tree, n) == tree.arena[n].left = NULL /\ tree.arena[n].right = NULL

LeafNodes(tree) == {n \in 1 .. Len(tree.arena) : IsLeaf(tree, n)}

\* the weight of a child, 0 for a missing one
ChildWeight(tree, c) == IF c = NULL THEN 0 ELSE tree.arena[c].frequency

\* a + b as uint32 is the sum of a and b: the addition does not wrap
SumFits(a, b) == ~U32Lt(Add32(a, b), a)

\* the sum of the counts of the symbols of S, and whether every partial sum
\* fitted 32 bits
RECURSIVE SumCounts(_, _)
SumCounts(frequencies, S) ==
    IF S = {} THEN [sum |-> 0, fits |-> TRUE]
    ELSE LET i == CHOOSE j \in S : \A k \in S : j <= k
             rest == SumCounts(frequencies, S \ {i})
         IN  [sum |-> Add32(rest.sum, frequencies[i]),
              fits |-> rest.fits /\ SumFits(rest.sum, frequencies[i])]

\* C13: Tree weight invariant. The tree built from a table with a nonzero
\* count has exactly one root (every other node has exactly one parent),
\* every internal node's weight is the sum of its children's weights, the
\* root's weight is the sum of all counts, and the leaves are exactly the
\* symbols with a nonzero count, each carrying its count.
C13_TreeWeights ==
    (pc \in {"built", "written", "read"}
        /\ PresentSyms(comp.frequencies) # {}) =>
        LET tree == comp.tree
            N == 1 .. Len(tree.arena)
            total == SumCounts(comp.frequencies, PresentSyms(comp.frequencies))
        IN  /\ tree.root \in N
            /\ Parents(tree, tree.root) = {}
            /\ \A n \in N \ {tree.root} :
                   /\ Cardinality(Parents(tree, n)) = 1
                   /\ \A p \in Parents(tree, n) :
                          tree.arena[p].left # tree.arena[p].right
            /\ \A n \in N \ LeafNodes(tree) :
                   /\ tree.arena[n].frequency =
                          Add32(ChildWeight(tree, tree.arena[n].left),
                                ChildWeight(tree, tree.arena[n].right))
                   /\ SumFits(ChildWeight(tree, tree.arena[n].left),
                              ChildWeight(tree, tree.arena[n].right))
            /\ tree.arena[tree.root].frequency = total.sum /\ total.fits
            /\ {tree.arena[n].character : n \in LeafNodes(tree)}
                   = PresentSyms(comp.frequencies)
            /\ Cardinality(LeafNodes(tree))
                   = Cardinality(PresentSyms(comp.frequencies))
            /\ \A n \in LeafNodes(tree) :
                   tree.arena[n].frequency
                       = comp.frequencies[tree.arena[n].character]

\* C14: Queue capacity. While buildHuffmanTree runs on a table with two or
\* more symbols, the heap has capacity for the distinct symbols, every call
\* of insertMinHeap finds size < capacity and queues its node, the number of
\* queued nodes is the number of leaves inserted minus the merges done, and
\* the loop ends after (distinct symbols - 1) merges with one node left,
\* which is the root; the result is the tree buildHuffmanTree returns.
C14_CapacityNeverExceeded ==
    LET uniqueChars == Cardinality(PresentSyms(comp.frequencies))
        leaves == Cardinality({i \in PresentSyms(comp.frequencies) :
                                  i < last.i})
    IN  /\ (pc \in {"populate", "merge"}) =>
               /\ heap.capacity = uniqueChars
               /\ heap.size <= heap.capacity
               /\ heap.size = leaves - last.merges
               /\ last.op = "insert" =>
                      /\ last.before.size < last.before.capacity
                      /\ heap.size = last.before.size + 1
                      /\ last.node \in Queued(heap)
               /\ pc = "merge" => leaves = uniqueChars
        /\ (pc = "done" /\ uniqueChars >= 2) =>
               /\ last.op = "extract"
               /\ last.before.size = 1
               /\ last.merges = uniqueChars - 1
               /\ comp.tree.root = last.node
               /\ comp.tree.root # NULL
        /\ (pc = "done") => comp.tree = buildHuffmanTree(comp.frequencies)

C14_Witness ==
    /\ pc = "done"
    /\ Cardinality(PresentSyms(comp.frequencies)) = NumTableSyms
    /\ last.merges = NumTableSyms - 1
    /\ last.before.size = 1

\* the run of decodeAndWrite on the archive, for one outcome of the NULL
\* dereference
DecoderRun(ub) ==
    LET h == readFileHeader(Fopen(archive))
        r == readFrequencies(h.f, h.header.frequency_count)
    IN  decodeAndWrite(r.f, dec.tree, h.header.original_size,
                       h.header.padding_bits, ub)

\* the archive differs from the one compressFile wrote in byte k only
OnlyByteChanged(k) ==
    /\ Len(archive) = Len(comp.out)
    /\ \A j \in 1 .. Len(archive) : (archive[j] # comp.out[j]) <=> (j = k)

\* C15: Decoder stop condition. The decoder never writes more than
\* original_size bytes; it stops on the size exactly when the counter equals
\* original_size, and on the end of the stream only with fewer bytes decoded
\* and every byte of the archive read; for an archive as compressFile wrote
\* it the output is the input (the padding bits add no symbol), also when
\* only the header's padding_bits byte was changed.
C15_DecoderStops ==
    (pc = "decompressed" /\ dec.outOpened) =>
        /\ Len(dec.out) = dec.decodedBytes
        /\ ~U32Lt(dec.header.original_size, dec.decodedBytes)
        /\ (dec.status = "size") <=>
               (dec.decodedBytes = dec.header.original_size)
        /\ (dec.status = "eof") =>
               /\ U32Lt(dec.decodedBytes, dec.header.original_size)
               /\ \E ub \in UBOutcomes :
                      LET d == DecoderRun(ub)
                      IN  /\ d.status = "eof" /\ d.out = dec.out
                          /\ d.f.pos = Len(archive)
                          /\ d.bitPosition = 0
        /\ (~tampered \/ OnlyByteChanged(HEADER_SIZE)) =>
               /\ dec.status = "size"
               /\ dec.ret = 0
               /\ dec.out = input

\* the padding_bits byte was changed and the last payload byte holds seven
\* padding bits, each of them a complete code
C15_Witness ==
    /\ pc = "decompressed" /\ dec.outOpened
    /\ OnlyByteChanged(HEADER_SIZE)
    /\ Cardinality(Symbols(input)) = 1 /\ Len(input) = 9
    /\ dec.out = input

\* the bits of the codes of the bytes data[k], data[k + 1], ...
RECURSIVE CodeBits(_, _, _)
CodeBits(data, codes, k) ==
    IF k > Len(data) THEN << >>
    ELSE codes[data[k]].code \o CodeBits(data, codes, k + 1)

\* bit n of a bit string, 0 past its end
BitAt(bits, n) == IF n <= Len(bits) /\ bits[n] = "1" THEN 1 ELSE 0

\* byte j (from 1) of a bit string packed most significant bit first
PackedByte(bits, j) ==
    LET n == 8 * (j - 1)
    IN  128 * BitAt(bits, n + 1) + 64 * BitAt(bits, n + 2)
            + 32 * BitAt(bits, n + 3) + 16 * BitAt(bits, n + 4)
            + 8 * BitAt(bits, n + 5) + 4 * BitAt(bits, n + 6)
            + 2 * BitAt(bits, n + 7) + BitAt(bits, n + 8)

\* the sum over the symbols of S of count times code length
RECURSIVE TotalBits(_, _, _)
TotalBits(frequencies, codes, S) ==
    IF S = {} THEN 0
    ELSE LET i == CHOOSE j \in S : \A k \in S : j <= k
         IN  frequencies[i] * codes[i].length
                 + TotalBits(frequencies, codes, S \ {i})

\* C16: Header payload size. In the archive of a successful compressFile the
\* header's compressed_size is the number of payload bytes, which is
\* ceil(B/8) for B the sum over the present symbols of count times code
\* length; after the header the file holds the frequency table as
\* writeFrequencies emits it and then the codes of the input bytes packed
\* most significant bit first; original_size is the input length and
\* symbol_count the number of distinct symbols.
C16_HeaderPayloadSize ==
    (pc # "start" /\ comp.ret = 0) =>
        LET B == TotalBits(comp.frequencies, comp.codes,
                           PresentSyms(comp.frequencies))
            table == writeFrequencies(Fopen(<< >>), comp.frequencies).data
            bits == CodeBits(input, comp.codes, 1)
        IN  /\ WrittenHeader.magic = MAGIC_NUMBER
            /\ WrittenHeader.compressed_size = Len(WrittenPayload)
            /\ Len(WrittenPayload) = CeilDiv8(B)
            /\ Len(bits) = B
            /\ Len(comp.out) = HEADER_SIZE + Len(table) + CeilDiv8(B)
            /\ comp.dataStart = HEADER_SIZE + Len(table)
            /\ SubSeq(comp.out, HEADER_SIZE + 1, comp.dataStart) = table
            /\ \A j \in 1 .. Len(WrittenPayload) :
                   WrittenPayload[j] = PackedByte(bits, j)
            /\ WrittenHeader.original_size = Len(input)
            /\ WrittenHeader.frequency_count = Cardinality(Symbols(input))

C16_Witness ==
    /\ pc = "compressed" /\ comp.ret = 0
    /\ Cardinality(Symbols(input)) = NumSyms
    /\ Len(WrittenPayload) >= 2
    /\ WrittenHeader.compressed_size = Len(WrittenPayload)
    /\ Len(CodeBits(input, comp.codes, 1)) % 8 # 0

\* C17: Shorter codes for higher-frequency symbols. For a table with two or
\* more symbols, a symbol with a larger count than another has a code no
\* longer than the other's; every present symbol has a code of length >= 1
\* and every absent symbol has length 0.
C17_ShorterForFrequent ==
    (pc \in {"built", "written", "read"}
        /\ Cardinality(PresentSyms(comp.frequencies)) >= 2) =>
        /\ \A a, b \in PresentSyms(comp.frequencies) :
               U32Lt(comp.frequencies[b], comp.frequencies[a]) =>
                   comp.codes[a].length <= comp.codes[b].length
        /\ \A i \in 0 .. ASCII_SIZE - 1 :
               IF comp.frequencies[i] # 0
               THEN comp.codes[i].length >= 1
               ELSE comp.codes[i].length = 0

====
